---- MODULE Spec2Model ----
(***************************************************************************)
(* Cons-cell allocator and primitives of rust_src/src/cons.rs.             *)
(*                                                                         *)
(* A LispObject is a machine word: the low three bits are the type tag,    *)
(* the rest is the address or the immediate datum.  Memory is modelled at  *)
(* the granularity of the two words of a LispCons (car at offset 0, cdr at *)
(* offset 8).  The collector, the pure-storage test and the tag layout are *)
(* collaborators of cons.rs that live outside it.                          *)
(***************************************************************************)
EXTENDS Integers, FiniteSets, Sequences, TLC

\* ------------------------------------------------------------------ bounds
\* Cells of the block that the host allocator has carved out so far.
NumCarved == 2
\* Fcons is offered while consing_since_gc is below MaxConsing cells' worth.
MaxConsing == 2
\* Fcons and the collector's push are offered while total_free_conses < MaxFree.
MaxFree == 3

\* --------------------------------------------------------- tagged words
Lisp_Cons == 3
Qnil == 0
CONS_BLOCK_SIZE == 100
\* mem::size_of::<LispCons>(): two 8-byte words.
ConsSize == 16

XTYPE(x) == x % 8
XUNTAG(a, ty) == a - ty
make_lisp_ptr(ptr, ty) == ptr + ty
make_number(n) == 4 * n + 2

CONSP(x) == XTYPE(x) = Lisp_Cons

\* ------------------------------------------------------------- addresses
\* One ConsBlock, obtained from lisp_align_malloc(.., MEM_TYPE_CONS).
BlockBase == 64 * ConsSize
BlockAddrs == {BlockBase + ConsSize * i : i \in 0 .. (CONS_BLOCK_SIZE - 1)}
CarvedAddrs == {BlockBase + ConsSize * i : i \in 0 .. (NumCarved - 1)}
\* One cons cell in pure storage.
PureAddr == 8 * ConsSize
PureAddrs == {PureAddr}
CellAddrs == CarvedAddrs \cup PureAddrs
\* Pure storage is a range of addresses; the cell fills it.
PURE_P(ptr) == PureAddr <= ptr /\ ptr < PureAddr + ConsSize
\* A word that is no cons and points into pure storage (tag 4: a string).
PureString == PureAddr + 4

Immediates == {Qnil, make_number(1)}

VARIABLES
    mem,                \* cell address -> [car, cdr], the two words of a LispCons
    cons_free_list,     \* raw address of the head of the free list, 0 = null
    consing_since_gc,
    total_free_conses,
    gcmarkbits,         \* cell addresses whose mark bit is set
    gcphase,            \* "idle" or "sweep": the collector stops the world
    roots,              \* the words the interpreter holds
    live,               \* carved cells handed out and not since reclaimed
    pushed,             \* the push that was the latest free-list operation, if any
    wild,               \* a store has been made to an address that is no cell
    halted,             \* the process has panicked or faulted
    last,               \* the primitive call in progress: op, x, y, result, error
    frame,              \* an Fcons that runs statement by statement, if any
    scen,               \* progress of the end-to-end scenario
    markq               \* a pair of cell indices whose mark bits are located

heap == <<mem, cons_free_list, consing_since_gc, total_free_conses, gcmarkbits,
          gcphase, roots, live, pushed, wild, halted, last>>
vars == <<mem, cons_free_list, consing_since_gc, total_free_conses, gcmarkbits,
          gcphase, roots, live, pushed, wild, halted, last, frame, scen, markq>>

NoCall == [op |-> "none", x |-> Qnil, y |-> Qnil, ret |-> Qnil, err |-> "none"]
Call(op, x, y, ret, err) == [op |-> op, x |-> x, y |-> y, ret |-> ret, err |-> err]
NoPush == [cell |-> 0, before |-> 0]
NoFrame == [pc |-> "none", car |-> Qnil, cdr |-> Qnil, val |-> Qnil, reentered |-> FALSE]
NoScen == [pc |-> "start", x |-> Qnil, y |-> Qnil, ok |-> TRUE]
NoMarkq == [i |-> 0, j |-> 0, pi |-> <<0, 0>>, pj |-> <<0, 0>>, done |-> FALSE]

\* ---------------------------------------------------------- reachability
CellOf(w) == XUNTAG(w, Lisp_Cons)
IsCellRef(w) == CONSP(w) /\ CellOf(w) \in CellAddrs
Succs(S) == {CellOf(mem[c].car) : c \in {d \in S : IsCellRef(mem[d].car)}}
            \cup {CellOf(mem[c].cdr) : c \in {d \in S : IsCellRef(mem[d].cdr)}}
RECURSIVE Closure(_)
Closure(S) == IF Succs(S) \subseteq S THEN S ELSE Closure(S \cup Succs(S))
Reachable == Closure({CellOf(r) : r \in {w \in roots : IsCellRef(w)}})

\* The addresses on the free list, following the link in the second slot.
RECURSIVE ChainFrom(_, _)
ChainFrom(p, seen) ==
    IF p = 0 \/ p \in seen THEN seen
    ELSE IF p \notin CellAddrs THEN seen \cup {p}
    ELSE ChainFrom(mem[p].cdr, seen \cup {p})
FreeChain == ChainFrom(cons_free_list, {})

InitHeap ==
    /\ mem = [a \in CellAddrs |->
                IF a \in PureAddrs THEN [car |-> make_number(1), cdr |-> Qnil]
                ELSE [car |-> Qnil, cdr |-> Qnil]]
    /\ cons_free_list = 0
    /\ consing_since_gc = 0
    /\ total_free_conses = 0
    /\ gcmarkbits = {}
    /\ gcphase = "idle"
    /\ roots = {make_lisp_ptr(a, Lisp_Cons) : a \in CellAddrs}
    /\ live = CarvedAddrs
    /\ pushed = NoPush
    /\ wild = FALSE
    /\ halted = FALSE
    /\ last = NoCall

Init ==
    /\ InitHeap
    /\ frame = NoFrame
    /\ scen = NoScen
    /\ markq = NoMarkq

\* The interpreter is between two primitive calls.
Running == ~halted /\ gcphase = "idle" /\ last = NoCall /\ frame = NoFrame
\* The values the interpreter can pass to a primitive.
Args == Immediates \cup {PureString} \cup roots
\* The values it stores into cells.
Vals == Immediates
Hold(v) == IF IsCellRef(v) THEN roots \cup {v} ELSE roots

\* ------------------------------------------------------------ primitives
\* The result TRUE stands for Qt, FALSE for Qnil.
Fconsp(object) ==
    /\ Running
    /\ last' = Call("consp", object, Qnil, CONSP(object), "none")
    /\ UNCHANGED <<mem, cons_free_list, consing_since_gc, total_free_conses,
                   gcmarkbits, gcphase, roots, live, pushed, wild, halted>>

XSETCAR_cdr(m, c, n) == [m EXCEPT ![XUNTAG(c, Lisp_Cons)].cdr = n]
XSETCAR(m, c, n) == [m EXCEPT ![XUNTAG(c, Lisp_Cons)].car = n]
XSETCDR(m, c, n) == [m EXCEPT ![XUNTAG(c, Lisp_Cons)].cdr = n]

\* CHECK_TYPE or CHECK_IMPURE signals: the call unwinds without a store.
Signal(op, cell, newval, err) ==
    /\ last' = Call(op, cell, newval, Qnil, err)
    /\ UNCHANGED mem

\* Fsetcar without CHECK_IMPURE.
Fsetcar_noimpure(cell, newcar) ==
    /\ Running
    /\ IF ~CONSP(cell) THEN Signal("setcar", cell, newcar, "TypeError")
       ELSE /\ mem' = XSETCAR(mem, cell, newcar)
            /\ last' = Call("setcar", cell, newcar, newcar, "none")
    /\ UNCHANGED <<cons_free_list, consing_since_gc, total_free_conses,
                   gcmarkbits, gcphase, roots, live, pushed, wild, halted>>

Fsetcar(cell, newcar) ==
    /\ Running
    /\ IF ~CONSP(cell) THEN Signal("setcar", cell, newcar, "TypeError")
       ELSE IF PURE_P(XUNTAG(cell, Lisp_Cons))
       THEN Signal("setcar", cell, newcar, "ImmutabilityError")
       ELSE /\ mem' = XSETCAR(mem, cell, newcar)
            /\ last' = Call("setcar", cell, newcar, newcar, "none")
    /\ UNCHANGED <<cons_free_list, consing_since_gc, total_free_conses,
                   gcmarkbits, gcphase, roots, live, pushed, wild, halted>>

\* Fsetcdr without CHECK_TYPE: the store goes wherever the untagged word points.
Fsetcdr_notype(cell, newcar) ==
    /\ Running
    /\ IF CONSP(cell) /\ PURE_P(XUNTAG(cell, Lisp_Cons))
       THEN Signal("setcdr", cell, newcar, "ImmutabilityError")
       ELSE /\ mem' = IF XUNTAG(cell, Lisp_Cons) \in CellAddrs
                      THEN XSETCDR(mem, cell, newcar) ELSE mem
            /\ last' = Call("setcdr", cell, newcar, newcar, "none")
    /\ UNCHANGED <<cons_free_list, consing_since_gc, total_free_conses,
                   gcmarkbits, gcphase, roots, live, pushed, wild, halted>>

\* Fsetcdr with CHECK_IMPURE ahead of CHECK_TYPE.
Fsetcdr_impurefirst(cell, newcar) ==
    /\ Running
    /\ IF PURE_P(XUNTAG(cell, Lisp_Cons))
       THEN Signal("setcdr", cell, newcar, "ImmutabilityError")
       ELSE IF ~CONSP(cell) THEN Signal("setcdr", cell, newcar, "TypeError")
       ELSE /\ mem' = XSETCDR(mem, cell, newcar)
            /\ last' = Call("setcdr", cell, newcar, newcar, "none")
    /\ UNCHANGED <<cons_free_list, consing_since_gc, total_free_conses,
                   gcmarkbits, gcphase, roots, live, pushed, wild, halted>>

Fsetcdr(cell, newcar) ==
    /\ Running
    /\ IF ~CONSP(cell) THEN Signal("setcdr", cell, newcar, "TypeError")
       ELSE IF PURE_P(XUNTAG(cell, Lisp_Cons))
       THEN Signal("setcdr", cell, newcar, "ImmutabilityError")
       ELSE /\ mem' = XSETCDR(mem, cell, newcar)
            /\ last' = Call("setcdr", cell, newcar, newcar, "none")
    /\ UNCHANGED <<cons_free_list, consing_since_gc, total_free_conses,
                   gcmarkbits, gcphase, roots, live, pushed, wild, halted>>

\* car and cdr are not defined in cons.rs; they return the field of a cell and
\* signal a type error on anything else.
Fcar(cell) ==
    /\ Running
    /\ IF ~CONSP(cell)
         THEN last' = Call("car", cell, Qnil, Qnil, "TypeError") /\ UNCHANGED roots
         ELSE /\ last' = Call("car", cell, Qnil, mem[XUNTAG(cell, Lisp_Cons)].car, "none")
              /\ roots' = Hold(mem[XUNTAG(cell, Lisp_Cons)].car)
    /\ UNCHANGED <<mem, cons_free_list, consing_since_gc, total_free_conses,
                   gcmarkbits, gcphase, live, pushed, wild, halted>>

Fcdr(cell) ==
    /\ Running
    /\ IF ~CONSP(cell)
         THEN last' = Call("cdr", cell, Qnil, Qnil, "TypeError") /\ UNCHANGED roots
         ELSE /\ last' = Call("cdr", cell, Qnil, mem[XUNTAG(cell, Lisp_Cons)].cdr, "none")
              /\ roots' = Hold(mem[XUNTAG(cell, Lisp_Cons)].cdr)
    /\ UNCHANGED <<mem, cons_free_list, consing_since_gc, total_free_conses,
                   gcmarkbits, gcphase, live, pushed, wild, halted>>

\* ------------------------------------------------------------------ Fcons
\* The counter updates at the end of Fcons.
CountFree(n) == n + 1
CountConsing_nothing(n) == n
CountConsing(n) == n + ConsSize

\* The word Fcons reads as the next free-list link: LispConsChain has the
\* single field chain, at offset 0 of the cell.
ChainWord(cellmem) == cellmem.car

\* The word Fcons passes to XSETCAR and XSETCDR: the tagged head of the free
\* list, or the word 1 that val was initialised with.
FconsVal(head) == IF head # 0 THEN make_lisp_ptr(head, Lisp_Cons) ELSE 1

\* The process stops: debug_assert! in XCONS fails, or the access faults.
Abort(car, cdr) ==
    /\ halted' = TRUE
    /\ last' = Call("cons", car, cdr, Qnil, "abort")
    /\ UNCHANGED <<mem, cons_free_list, consing_since_gc, total_free_conses,
                   gcmarkbits, gcphase, roots, live, pushed, wild>>

\* Fcons returns val after its two stores and the counter updates.
Return(car, cdr, val) ==
    /\ consing_since_gc' = CountConsing(consing_since_gc)
    /\ total_free_conses' = CountFree(total_free_conses)
    /\ roots' = Hold(val)
    /\ last' = Call("cons", car, cdr, val, "none")
    /\ UNCHANGED <<gcmarkbits, gcphase, halted>>

\* The free list is not empty and its head is a cell.
FconsPop(car, cdr) ==
    LET p == cons_free_list
        val == FconsVal(p)
    IN  /\ p # 0 /\ p \in CellAddrs
        /\ cons_free_list' = ChainWord(mem[p])
        /\ mem' = XSETCDR(XSETCAR(mem, val, car), val, cdr)
        /\ live' = live \cup ({p} \cap CarvedAddrs)
        /\ pushed' = NoPush
        /\ UNCHANGED wild
        /\ Return(car, cdr, val)

\* The free list is not empty and its head is no cell: the read of the link
\* and the two stores go to memory that is not a LispCons.  The process
\* stops, or the read yields some word and the stores land outside the cells.
FconsWild(car, cdr) ==
    LET p == cons_free_list
        val == FconsVal(p)
    IN  /\ p # 0 /\ p \notin CellAddrs
        /\ \/ Abort(car, cdr)
           \/ /\ \E w \in {0} \cup CarvedAddrs : cons_free_list' = w
              /\ wild' = TRUE
              /\ pushed' = NoPush
              /\ UNCHANGED <<mem, live>>
              /\ Return(car, cdr, val)

\* The free list is empty: the branch is empty, val keeps the word 1, and
\* the two stores go to the address XUNTAG(1, Lisp_Cons).
FconsEmpty(car, cdr) ==
    LET val == FconsVal(cons_free_list)
    IN  /\ cons_free_list = 0
        /\ \/ Abort(car, cdr)
           \/ /\ wild' = TRUE
              /\ UNCHANGED <<mem, cons_free_list, live, pushed>>
              /\ Return(car, cdr, val)

\* One whole call of Fcons.
FconsCall(car, cdr) ==
    /\ consing_since_gc < MaxConsing * ConsSize
    /\ total_free_conses < MaxFree
    /\ \/ FconsPop(car, cdr)
       \/ FconsWild(car, cdr)
       \/ FconsEmpty(car, cdr)

Fcons(car, cdr) == Running /\ FconsCall(car, cdr)

\* ------------------------------------------------------------ interpreter
\* The interpreter forgets a value it held.
DropRoot(r) ==
    /\ Running
    /\ r \in roots /\ ~PURE_P(CellOf(r))
    /\ roots' = roots \ {r}
    /\ UNCHANGED <<mem, cons_free_list, consing_since_gc, total_free_conses,
                   gcmarkbits, gcphase, live, pushed, wild, halted, last>>

\* The primitive's result or error reaches the interpreter.
Resume ==
    /\ ~halted /\ last # NoCall
    /\ last' = NoCall
    /\ UNCHANGED <<mem, cons_free_list, consing_since_gc, total_free_conses,
                   gcmarkbits, gcphase, roots, live, pushed, wild, halted>>

\* -------------------------------------------------------------- collector
\* Tracing sets the mark bit of every reachable cell of the block.
GcMark ==
    /\ Running
    /\ gcmarkbits' = Reachable \cap CarvedAddrs
    /\ gcphase' = "sweep"
    /\ UNCHANGED <<mem, cons_free_list, consing_since_gc, total_free_conses,
                   roots, live, pushed, wild, halted, last>>

\* push: the cell's second slot takes the link, the cell becomes the head.
Push(c) ==
    /\ mem' = [mem EXCEPT ![c].cdr = cons_free_list]
    /\ cons_free_list' = c
    /\ total_free_conses' = total_free_conses + 1
    /\ pushed' = [cell |-> c, before |-> total_free_conses]

\* Reclaim: a live cell whose mark bit is clear goes to the free list.
GcReclaim(c) ==
    /\ ~halted /\ gcphase = "sweep"
    /\ total_free_conses < MaxFree
    /\ c \in live /\ c \notin gcmarkbits
    /\ Push(c)
    /\ live' = live \ {c}
    /\ UNCHANGED <<consing_since_gc, gcmarkbits, gcphase, roots, wild, halted, last>>

\* The collection ends: mark bits are cleared and the counter is reset.
GcFinish ==
    /\ ~halted /\ gcphase = "sweep"
    /\ gcmarkbits' = {}
    /\ consing_since_gc' = 0
    /\ gcphase' = "idle"
    /\ UNCHANGED <<mem, cons_free_list, total_free_conses, roots, live, pushed,
                   wild, halted, last>>

\* The steps of the interpreter and of the collector.
others == <<frame, scen, markq>>
ConspStep == (\E o \in Args : Fconsp(o)) /\ UNCHANGED others
SetcarStep == (\E c \in Args, v \in Vals : Fsetcar(c, v)) /\ UNCHANGED others
SetcdrStep == (\E c \in Args, v \in Vals : Fsetcdr(c, v)) /\ UNCHANGED others
CarStep == (\E c \in Args : Fcar(c)) /\ UNCHANGED others
CdrStep == (\E c \in Args : Fcdr(c)) /\ UNCHANGED others
ConsStep == (\E a \in Vals, b \in Vals : Fcons(a, b)) /\ UNCHANGED others
DropStep == (\E r \in roots : DropRoot(r)) /\ UNCHANGED others
ResumeStep == Resume /\ UNCHANGED others
MarkStep == GcMark /\ UNCHANGED others
ReclaimStep == (\E c \in CarvedAddrs : GcReclaim(c)) /\ UNCHANGED others
FinishStep == GcFinish /\ UNCHANGED others

Next ==
    \/ ConspStep
    \/ SetcarStep
    \/ SetcdrStep
    \/ CarStep
    \/ CdrStep
    \/ ConsStep
    \/ DropStep
    \/ ResumeStep
    \/ MarkStep
    \/ ReclaimStep
    \/ FinishStep

Spec == Init /\ [][Next]_vars

\* ------------------------------------------- Fcons, statement by statement
\* The bracket that would suspend async input around the allocation: the
\* source has the comment "MALLOC_BLOCK_INPUT; is a no-op." and no bracket.
MALLOC_BLOCK_INPUT == FALSE

InFrame == frame.pc # "none"

\* The test of the head of the free list, and the tagging of val.
FconsEnter(car, cdr) ==
    /\ Running
    /\ consing_since_gc < MaxConsing * ConsSize
    /\ total_free_conses < MaxFree
    /\ frame' = [pc |-> IF cons_free_list # 0 THEN "unlink" ELSE "store",
                 car |-> car, cdr |-> cdr,
                 val |-> FconsVal(cons_free_list), reentered |-> FALSE]
    /\ UNCHANGED heap

\* cons_free_list = (*cons_free_list).chain, on the head as it is now.
FconsUnlink ==
    /\ ~halted /\ frame.pc = "unlink"
    /\ IF cons_free_list \in CellAddrs
       THEN /\ cons_free_list' = ChainWord(mem[cons_free_list])
            /\ pushed' = NoPush
            /\ frame' = [frame EXCEPT !.pc = "store"]
            /\ UNCHANGED <<mem, consing_since_gc, total_free_conses, gcmarkbits,
                           gcphase, roots, live, wild, halted, last>>
       ELSE \/ Abort(frame.car, frame.cdr) /\ UNCHANGED frame
            \/ /\ \E w \in {0} \cup CarvedAddrs : cons_free_list' = w
               /\ wild' = TRUE
               /\ pushed' = NoPush
               /\ frame' = [frame EXCEPT !.pc = "store"]
               /\ UNCHANGED <<mem, consing_since_gc, total_free_conses,
                              gcmarkbits, gcphase, roots, live, halted, last>>

\* XSETCAR(val, car); XSETCDR(val, cdr).
FconsStore ==
    /\ ~halted /\ frame.pc = "store"
    /\ IF IsCellRef(frame.val)
       THEN /\ mem' = XSETCDR(XSETCAR(mem, frame.val, frame.car), frame.val, frame.cdr)
            /\ live' = live \cup ({CellOf(frame.val)} \cap CarvedAddrs)
            /\ frame' = [frame EXCEPT !.pc = "count"]
            /\ UNCHANGED <<cons_free_list, consing_since_gc, total_free_conses,
                           gcmarkbits, gcphase, roots, pushed, wild, halted, last>>
       ELSE \/ Abort(frame.car, frame.cdr) /\ UNCHANGED frame
            \/ /\ wild' = TRUE
               /\ frame' = [frame EXCEPT !.pc = "count"]
               /\ UNCHANGED <<mem, cons_free_list, consing_since_gc,
                              total_free_conses, gcmarkbits, gcphase, roots, live,
                              pushed, halted, last>>

\* The counter updates and the return of val.
FconsReturn ==
    /\ ~halted /\ frame.pc = "count"
    /\ consing_since_gc < MaxConsing * ConsSize
    /\ total_free_conses < MaxFree
    /\ Return(frame.car, frame.cdr, frame.val)
    /\ frame' = NoFrame
    /\ UNCHANGED <<mem, cons_free_list, live, pushed, wild>>

\* A handler of async input runs between two statements of Fcons and calls
\* Fcons itself, unless input is blocked.
Handler(car, cdr) ==
    /\ ~halted /\ InFrame /\ ~frame.reentered
    /\ ~MALLOC_BLOCK_INPUT
    /\ FconsCall(car, cdr)
    /\ frame' = [frame EXCEPT !.reentered = TRUE]

EnterStep == (\E a \in Vals, b \in Vals : FconsEnter(a, b)) /\ UNCHANGED <<scen, markq>>
UnlinkStep == FconsUnlink /\ UNCHANGED <<scen, markq>>
StoreStep == FconsStore /\ UNCHANGED <<scen, markq>>
ReturnStep == FconsReturn /\ UNCHANGED <<scen, markq>>
HandlerStep == (\E a \in Vals, b \in Vals : Handler(a, b)) /\ UNCHANGED <<scen, markq>>

NextAsync ==
    \/ Next
    \/ EnterStep
    \/ UnlinkStep
    \/ StoreStep
    \/ ReturnStep
    \/ HandlerStep

SpecAsync == Init /\ [][NextAsync]_vars

\* ------------------------------------------------- the end-to-end scenario
\* x = cons(1, nil); y = cons(2, nil); setcdr(x, y), begun in any state the
\* allocator can be in.
ScenCons1 ==
    /\ scen.pc = "start"
    /\ Fcons(make_number(1), Qnil)
    /\ scen' = [pc |-> "x", x |-> last'.ret, y |-> Qnil, ok |-> last'.err = "none"]
    /\ UNCHANGED <<frame, markq>>

ScenCons2 ==
    /\ scen.pc = "x"
    /\ Fcons(make_number(2), Qnil)
    /\ scen' = [scen EXCEPT !.pc = "y", !.y = last'.ret,
                            !.ok = scen.ok /\ last'.err = "none"]
    /\ UNCHANGED <<frame, markq>>

ScenSetcdr ==
    /\ scen.pc = "y"
    /\ Fsetcdr(scen.x, scen.y)
    /\ scen' = [scen EXCEPT !.pc = "done", !.ok = scen.ok /\ last'.err = "none"]
    /\ UNCHANGED <<frame, markq>>

ScenResume == scen.pc # "start" /\ ResumeStep

BeforeScen == scen.pc = "start" /\ Next

NextScen ==
    \/ BeforeScen
    \/ ScenCons1
    \/ ScenCons2
    \/ ScenSetcdr
    \/ ScenResume

SpecScen == Init /\ [][NextScen]_vars

\* ------------------------------------------------------- the mark bitmap
\* The width of a bitmap word and the number of words in ConsBlock.gcmarkbits.
BITS_PER_BITS_WORD == 8 * 8
MarkWords_floor == CONS_BLOCK_SIZE \div BITS_PER_BITS_WORD
MarkWords == 1 + CONS_BLOCK_SIZE \div BITS_PER_BITS_WORD

\* The word and the bit of the mark bit of the cell with index i.
MarkPos(i) == <<i \div BITS_PER_BITS_WORD, i % BITS_PER_BITS_WORD>>
Indices == 0 .. (CONS_BLOCK_SIZE - 1)

InitBits ==
    /\ InitHeap
    /\ frame = NoFrame
    /\ scen = NoScen
    /\ \E i \in Indices, j \in Indices : markq = [NoMarkq EXCEPT !.i = i, !.j = j]

\* The mark bits of the two cells are located.
Locate ==
    /\ ~markq.done
    /\ markq' = [markq EXCEPT !.pi = MarkPos(markq.i), !.pj = MarkPos(markq.j),
                              !.done = TRUE]
    /\ UNCHANGED <<heap, frame, scen>>

NextBits == Locate

SpecBits == InitBits /\ [][NextBits]_vars

\* Type invariant of the model.
TypeOK ==
    /\ DOMAIN mem = CellAddrs
    /\ live \subseteq CarvedAddrs
    /\ gcmarkbits \subseteq CarvedAddrs
    /\ gcphase \in {"idle", "sweep"}
    /\ \A r \in roots : IsCellRef(r)
    /\ total_free_conses \in 0 .. MaxFree
    /\ consing_since_gc \in 0 .. (MaxConsing * ConsSize)

\* ------------------------------------------------------------------ claims
Stores == {"setcar", "setcdr"}
\* The state outside the cells that no primitive other than Fcons may touch.
alloc == <<cons_free_list, consing_since_gc, total_free_conses, gcmarkbits, live>>

\* C1: every cons(a, b), with the free list empty or not, returns a cell
\* whose first field is a and whose second field is b.
C1_ConsFields ==
    last.op = "cons" =>
        /\ last.err = "none"
        /\ IsCellRef(last.ret)
        /\ mem[CellOf(last.ret)].car = last.x
        /\ mem[CellOf(last.ret)].cdr = last.y

\* C2: consp answers true exactly for words with the cons tag, and every cons
\* call, with the free list empty or not, returns a word for which it is true.
C2_ConspOfCons ==
    /\ last.op = "consp" => (last.ret <=> XTYPE(last.x) = Lisp_Cons)
    /\ last.op = "cons" => (last.err = "none" /\ CONSP(last.ret))

\* C3: a cons called with the free list empty succeeds and returns a cell of
\* a block that was not live before the call.
C3_GrowthOnExhaustion ==
    [][(last'.op = "cons" /\ cons_free_list = 0) =>
          /\ last'.err = "none"
          /\ CONSP(last'.ret)
          /\ CellOf(last'.ret) \in BlockAddrs
          /\ CellOf(last'.ret) \notin live]_vars

\* C4: setcar (setcdr) of a live cell that is not pure stores the value in the
\* first (second) field, returns it, and changes no other field, no other
\* cell, neither the free list nor the counters.
C4_StoreFrame ==
    [][(last'.op \in Stores /\ IsCellRef(last'.x) /\ CellOf(last'.x) \in live) =>
          /\ last'.err = "none"
          /\ last'.ret = last'.y
          /\ mem' = [mem EXCEPT ![CellOf(last'.x)] =
                        IF last'.op = "setcar"
                        THEN [car |-> last'.y, cdr |-> mem[CellOf(last'.x)].cdr]
                        ELSE [car |-> mem[CellOf(last'.x)].car, cdr |-> last'.y]]
          /\ alloc' = alloc]_vars
C4_Witness ==
    /\ last.op = "setcar" /\ last.err = "none"
    /\ last.y = make_number(1)
    /\ mem[CellOf(last.x)] = [car |-> make_number(1), cdr |-> Qnil]
    /\ CellOf(last.x) \in live

\* C5: setcar and setcdr of a pure cell fail with the immutability error and
\* change neither the cell nor any other state.
C5_PurityGuard ==
    [][(last'.op \in Stores /\ CONSP(last'.x) /\ PURE_P(CellOf(last'.x))) =>
          /\ last'.err = "ImmutabilityError"
          /\ mem' = mem
          /\ alloc' = alloc]_vars
C5_Witness ==
    /\ last.op = "setcar" /\ last.err = "ImmutabilityError"
    /\ PURE_P(CellOf(last.x))
    /\ last.y # mem[CellOf(last.x)].car

\* C6: setcar, setcdr, car and cdr of a word without the cons tag fail with
\* the type error and change no cell, neither the free list nor the counters.
C6_TypeGuard ==
    [][(last'.op \in Stores \cup {"car", "cdr"} /\ ~CONSP(last'.x)) =>
          /\ last'.err = "TypeError"
          /\ mem' = mem
          /\ alloc' = alloc]_vars
C6_Witness ==
    /\ last.op = "setcdr" /\ last.err = "TypeError"
    /\ last.x = Qnil /\ last.y = make_number(1)

\* C7: as long as no store has gone outside the cells, a cons served from the
\* free list lowers total_free_conses by exactly one, and only a reclaim
\* raises it.
C7_FreeCount ==
    [][wild' \/
       /\ (last'.op = "cons" /\ last'.err = "none" /\ cons_free_list # 0) =>
              total_free_conses' = total_free_conses - 1
       /\ total_free_conses' > total_free_conses =>
              (gcphase = "sweep" /\ cons_free_list' \in live)]_vars

\* C8: a cons that follows a push with no free-list operation in between
\* returns the pushed cell and brings total_free_conses back to its value
\* before the push.
C8_RecycleRoundTrip ==
    [][(pushed # NoPush /\ last'.op = "cons" /\ last'.err = "none") =>
          /\ last'.ret = make_lisp_ptr(pushed.cell, Lisp_Cons)
          /\ total_free_conses' = pushed.before]_vars

\* C9: every address on the free list is a cell of a block, has its mark bit
\* clear and is not a live cell.
C9_FreeListInv ==
    \A a \in FreeChain : a \in BlockAddrs /\ a \notin gcmarkbits /\ a \notin live

\* C10: a cons that returns raises consing_since_gc by the size of one cell,
\* consp, setcar and setcdr leave it alone, and only the collector's reset
\* lowers it.
C10_ConsingCounter ==
    [][/\ (last'.op = "cons" /\ last'.err = "none") =>
              consing_since_gc' = consing_since_gc + ConsSize
       /\ last'.op \in Stores \cup {"consp"} =>
              consing_since_gc' = consing_since_gc
       /\ consing_since_gc' < consing_since_gc =>
              (gcphase = "sweep" /\ gcphase' = "idle" /\ consing_since_gc' = 0)]_vars
C10_Witness ==
    /\ last.op = "cons" /\ last.err = "none"
    /\ consing_since_gc = 2 * ConsSize

\* C11: the allocation is bracketed by a suspension of async input, so no
\* handler allocates from the free list between the read of the head by Fcons
\* and the return of the initialised cell.
C11_AsyncBracket == InFrame => ~frame.reentered

\* C12: a failed allocation never yields a degraded result: a call of cons
\* either ends with the out-of-memory condition and leaves the allocator as it
\* was, or returns a cell whose two fields are the two arguments.
C12_NoDegradedResult ==
    [][(last.op = "none" /\ last'.op = "cons") =>
          \/ last'.err = "OutOfMemory" /\ UNCHANGED <<mem, alloc>>
          \/ /\ last'.err = "none"
             /\ IsCellRef(last'.ret)
             /\ mem'[CellOf(last'.ret)] = [car |-> last'.x, cdr |-> last'.y]]_vars

\* C13: in the scenario every call returns; after x = cons(1, nil), x is a
\* cons with car 1 and cdr nil; after setcdr(x, cons(2, nil)), car(x) is
\* still 1, cdr(x) is another cell and car(cdr(x)) is 2.
C13_EndToEnd ==
    /\ scen.pc # "start" => scen.ok
    /\ scen.pc = "x" =>
          /\ IsCellRef(scen.x)
          /\ mem[CellOf(scen.x)] = [car |-> make_number(1), cdr |-> Qnil]
    /\ scen.pc = "done" =>
          /\ IsCellRef(scen.x) /\ IsCellRef(scen.y) /\ scen.x # scen.y
          /\ mem[CellOf(scen.x)] = [car |-> make_number(1), cdr |-> scen.y]
          /\ mem[CellOf(scen.y)].car = make_number(2)

\* C14: a cons called with a cell at the head of the free list returns that
\* cell, the new head is the link the reclaim stored in it, and the rest of
\* the free list is as it was.
C14_FreeListPreferred ==
    [][(last.op = "none" /\ last'.op = "cons" /\ cons_free_list \in CellAddrs) =>
          /\ last'.err = "none"
          /\ last'.ret = make_lisp_ptr(cons_free_list, Lisp_Cons)
          /\ cons_free_list' = mem[cons_free_list].cdr
          /\ FreeChain' = FreeChain \ {cons_free_list}]_vars

\* C15: the slot Fcons reads as the link of the head is the slot the push
\* wrote, the second slot of the cell: right after a push, the word Fcons
\* would read from the new head is the old head.
C15_LinkSlot ==
    [][(pushed' # NoPush /\ pushed' # pushed) =>
          /\ mem'[cons_free_list'].cdr = cons_free_list
          /\ ChainWord(mem'[cons_free_list']) = cons_free_list]_vars

\* C16: setcar and setcdr check the type first, the purity second and write
\* last: the type error is signalled exactly for a word without the cons tag,
\* also when that word points into pure storage; the immutability error only
\* for a cons in pure storage; a cell is written only through a cons outside
\* pure storage.
C16_GuardOrder ==
    [][(last.op = "none" /\ last'.op \in Stores) =>
          /\ (last'.err = "TypeError") = ~CONSP(last'.x)
          /\ (last'.err = "ImmutabilityError") =
                 (CONSP(last'.x) /\ PURE_P(XUNTAG(last'.x, Lisp_Cons)))
          /\ mem' # mem =>
                 (CONSP(last'.x) /\ ~PURE_P(XUNTAG(last'.x, Lisp_Cons)))]_vars
C16_Witness ==
    /\ last.op = "setcdr" /\ last.err = "TypeError"
    /\ ~CONSP(last.x) /\ PURE_P(XUNTAG(last.x, Lisp_Cons))

\* C17: a cons that finds the free list empty allocates a block: the call
\* returns, the free list then holds cell slots of a block, none of them
\* live or marked, and every cell that was live before still is.
C17_BlockGrowth ==
    [][(last.op = "none" /\ last'.op = "cons" /\ cons_free_list = 0) =>
          /\ last'.err = "none"
          /\ cons_free_list' \in BlockAddrs
          /\ FreeChain' \subseteq BlockAddrs \ (live' \cup gcmarkbits')
          /\ live \subseteq live']_vars

\* C18: the bitmap has at least one bit per cell of a block; the mark bit of
\* every index lies in a word of the bitmap and in a bit of that word, two
\* indices never share a bit, and the bits follow the order of the indices.
C18_BitmapCoverage ==
    /\ MarkWords * BITS_PER_BITS_WORD >= CONS_BLOCK_SIZE
    /\ markq.done =>
          /\ markq.pi[1] \in 0 .. (MarkWords - 1)
          /\ markq.pi[2] \in 0 .. (BITS_PER_BITS_WORD - 1)
          /\ markq.i # markq.j => markq.pi # markq.pj
          /\ markq.i < markq.j =>
                 \/ markq.pi[1] < markq.pj[1]
                 \/ markq.pi[1] = markq.pj[1] /\ markq.pi[2] < markq.pj[2]
C18_Witness ==
    /\ markq.done
    /\ markq.i = BITS_PER_BITS_WORD - 1 /\ markq.j = CONS_BLOCK_SIZE - 1
    /\ markq.pi = <<0, BITS_PER_BITS_WORD - 1>>
    /\ markq.pj[1] = MarkWords - 1

\* C19: no cell is handed out twice: a cell that cons returns was not live,
\* and a cons that follows another cons with no reclaim in between
\* (consing_since_gc is positive, no store has gone outside the cells)
\* returns a cell, one that was not live.
C19_NoDoubleHandOut ==
    [][(last.op = "none" /\ last'.op = "cons") =>
          /\ (last'.err = "none" /\ IsCellRef(last'.ret)) =>
                 CellOf(last'.ret) \notin live
          /\ (consing_since_gc > 0 /\ ~wild) =>
                 /\ last'.err = "none"
                 /\ IsCellRef(last'.ret)
                 /\ CellOf(last'.ret) \notin live]_vars

\* C20: the assertion of XCONS holds wherever cons, setcar and setcdr reach
\* it: the word Fcons passes to XSETCAR and XSETCDR has the cons tag and
\* points to a cell of a block, setcar and setcdr go past the type check only
\* with a cons, and no store goes outside the cells.
C20_XconsAssert ==
    [][(last.op = "none" /\ last'.op \in Stores \cup {"cons"}) =>
          /\ last'.op = "cons" =>
                 /\ CONSP(FconsVal(cons_free_list))
                 /\ XUNTAG(FconsVal(cons_free_list), Lisp_Cons) \in BlockAddrs
          /\ (last'.op \in Stores /\ last'.err # "TypeError") => CONSP(last'.x)
          /\ ~wild']_vars

====
